---- MODULE Spec2Model ----
(***************************************************************************)
(* Model of the bump allocator of Templates/baremetal.c (simple_alloc,     *)
(* reset_heap, my_memset) and of the circular-buffer macros of             *)
(* Templates/utils.h (CIRC_BUF_INC, CIRC_BUF_DEC, CIRC_BUF_FULL,           *)
(* CIRC_BUF_EMPTY, CIRC_BUF_COUNT).                                        *)
(*                                                                         *)
(* Unsigned machine words are modelled as 32-bit values (unsigned long on  *)
(* an ILP32 bare-metal target), held as a pair <<hi, lo>> of 16-bit limbs  *)
(* so that every operation wraps modulo 2^32 exactly as the C operation    *)
(* does.  A "wide" number is the same pair with an unbounded hi part; it   *)
(* holds the mathematical (unwrapped) result of a sum.                     *)
(***************************************************************************)
EXTENDS Integers, Sequences, FiniteSets, TLC

\* ------------------------------------------------------------------------
\* 32-bit unsigned arithmetic on limb pairs
\* ------------------------------------------------------------------------
LimbBits == 16
Limb == 2^LimbBits

\* the word whose value is the natural number n (n < 2^31)
U(n) == <<(n \div Limb) % Limb, n % Limb>>

\* the natural number held by a word known to be small (hi < 2^15)
Val(a) == a[1] * Limb + a[2]

UAdd(a, b) ==
    LET lo == a[2] + b[2]
        hi == a[1] + b[1] + (lo \div Limb)
    IN  <<hi % Limb, lo % Limb>>

USub(a, b) ==
    LET lo == a[2] - b[2]
        borrow == IF lo < 0 THEN 1 ELSE 0
        hi == a[1] - b[1] - borrow
    IN  <<hi % Limb, lo % Limb>>

RECURSIVE AndBits(_, _, _)
AndBits(x, y, n) ==
    IF n = 0 THEN 0
    ELSE (x % 2) * (y % 2) + 2 * AndBits(x \div 2, y \div 2, n - 1)

UAnd(a, b) == <<AndBits(a[1], b[1], LimbBits), AndBits(a[2], b[2], LimbBits)>>

UNot(a) == <<(Limb - 1) - a[1], (Limb - 1) - a[2]>>

\* a > b on words
UGt(a, b) == a[1] > b[1] \/ (a[1] = b[1] /\ a[2] > b[2])

\* the mathematical sum of two (words or wide numbers): hi is not wrapped
WAdd(a, b) ==
    LET lo == a[2] + b[2]
    IN  <<a[1] + b[1] + (lo \div Limb), lo % Limb>>

WLe(a, b) == a[1] < b[1] \/ (a[1] = b[1] /\ a[2] <= b[2])

\* ------------------------------------------------------------------------
\* Arena: Templates/baremetal.c
\* ------------------------------------------------------------------------
HEAP_SIZE == 4096
ALIGNMENT == 4

NULL == "NULL"

\* bounds of the exploration
MaxAllocs == 2
MaxWrites == 1

VARIABLES
    heap_memory,   \* static unsigned char heap_memory[HEAP_SIZE]
    heap_index,    \* static unsigned long heap_index
    ret,           \* result of the last simple_alloc call: NULL or an offset
    arg,           \* size argument of the last simple_alloc call
    pre_index,     \* heap_index when the last call began
    lastOp,        \* "init", "alloc", "reset", "write"
    prevOp,        \* the operation before the last one
    issued,        \* ranges <<offset, size>> handed out since the last reset
    writes,        \* number of caller writes since the last reset
    sumAligned,    \* sum of aligned sizes granted since the arena was empty
    sawNull,       \* a call has returned NULL since the arena was empty
    ring_size,     \* size of the ring (utils.h macros' size argument)
    head,          \* next-write cursor of the ring
    tail,          \* next-read cursor of the ring
    ringOp,        \* last cursor operation: "init", "inc_head", "dec_head", ...
    old,           \* value of the moved cursor before the last operation
    stored,        \* pushes minus pops of the driven ring
    str,           \* reverse_string: the len characters str[0] .. str[len-1]
    orig,          \* reverse_string: the characters when the call began
    rlen,          \* reverse_string: the argument len
    rpc,           \* reverse_string: "call", "done" or "undefined"
    ax,            \* rounding: the value x to round up
    aalign,        \* rounding: the alignment
    aresult,       \* rounding: the rounded value
    apc,           \* rounding: "call", "ALIGN_UP" or "simple_alloc"
    locked,        \* contexts: the callers hold a lock around simple_alloc
    pc,            \* contexts: where each one is in simple_alloc
    carg,          \* contexts: the size each one asked for
    csize,         \* contexts: the parameter size (rounded by line 93)
    cptr,          \* contexts: the local ptr
    ctmp,          \* contexts: heap_index as loaded by heap_index += size
    cret           \* contexts: the value each call returned

arenaVars == <<heap_memory, heap_index, ret, arg, pre_index, lastOp, prevOp,
               issued, writes, sumAligned, sawNull>>
ringVars == <<ring_size, head, tail, ringOp, old, stored>>
revVars == <<str, orig, rlen, rpc>>
\* what the arena's operations, the ring's and reverse_string leave alone
alignVars == <<ax, aalign, aresult, apc>>
ctxVars == <<locked, pc, carg, csize, cptr, ctmp, cret>>
\* the arena's record of sequential calls, which the contexts do not keep
arenaRecord == <<heap_memory, ret, arg, pre_index, lastOp, prevOp, issued,
                 writes, sumAligned, sawNull>>
notArena == <<ringVars, revVars, alignVars, ctxVars>>
notRing == <<arenaVars, revVars, alignVars, ctxVars>>
notRev == <<arenaVars, ringVars, alignVars, ctxVars>>
notAlign == <<arenaVars, ringVars, revVars, ctxVars>>
notCtx == <<arenaRecord, ringVars, revVars, alignVars>>
vars == <<heap_memory, heap_index, ret, arg, pre_index, lastOp, prevOp,
          issued, writes, sumAligned, sawNull, ring_size, head, tail, ringOp, old,
          stored, str, orig, rlen, rpc, ax, aalign, aresult, apc,
          locked, pc, carg, csize, cptr, ctmp, cret>>

\* size arguments tried, from both ends of the unsigned long range
Sizes ==
    { U(0), U(5), U(8), U(HEAP_SIZE), U(HEAP_SIZE + 1),
      USub(U(0), U(8)), USub(U(0), U(3)), USub(U(0), U(1)) }

\* mutant: the size is used as given, without rounding
AlignedSize_NoRound(size) == size

\* line 93: size = (size + ALIGNMENT - 1) & ~(ALIGNMENT - 1)
AlignedSize(size) ==
    UAnd(USub(UAdd(size, U(ALIGNMENT)), U(1)), UNot(U(ALIGNMENT - 1)))

\* mutant: only the request is compared with the capacity
OutOfMemory_SizeOnly(index, size) == UGt(size, U(HEAP_SIZE))

\* mutant: >= instead of >
OutOfMemory_Ge(index, size) == ~UGt(U(HEAP_SIZE), UAdd(index, size))

\* line 95: heap_index + size > HEAP_SIZE, size being the aligned size
OutOfMemory(index, size) == UGt(UAdd(index, size), U(HEAP_SIZE))

\* mutant: while (--num) stores one byte less
my_memset_PreDecrement(mem, value, num) ==
    [i \in DOMAIN mem |-> IF i < num - 1 THEN value % 256 ELSE mem[i]]

\* lines 23-29: my_memset on a byte array, starting at its first byte
my_memset(mem, value, num) ==
    [i \in DOMAIN mem |-> IF i < num THEN value % 256 ELSE mem[i]]

\* sum of aligned sizes, kept exactly up to HEAP_SIZE and as HEAP_SIZE + 1 beyond
SumPlus(sum, size) ==
    IF size[1] > 0 \/ sum + size[2] > HEAP_SIZE THEN HEAP_SIZE + 1
    ELSE sum + size[2]

ArenaInit ==
    /\ heap_memory = [i \in 0 .. HEAP_SIZE - 1 |-> 0]
    /\ heap_index = U(0)
    /\ ret = NULL
    /\ arg = U(0)
    /\ pre_index = U(0)
    /\ lastOp = "init"
    /\ prevOp = "init"
    /\ issued = <<>>
    /\ writes = 0
    /\ sumAligned = 0
    /\ sawNull = FALSE

RingIdle ==
    /\ ring_size = U(1)
    /\ head = U(0)
    /\ tail = U(0)
    /\ ringOp = "init"
    /\ old = U(0)
    /\ stored = 0

AlignIdle ==
    /\ ax = U(0)
    /\ aalign = U(1)
    /\ aresult = U(0)
    /\ apc = "call"

\* lines 91-102
simple_alloc(sz) ==
    /\ Len(issued) < MaxAllocs
    /\ LET size == AlignedSize(sz)
       IN  /\ arg' = sz
           /\ pre_index' = heap_index
           /\ prevOp' = lastOp
           /\ lastOp' = "alloc"
           /\ IF OutOfMemory(heap_index, size)
              THEN /\ ret' = NULL
                   /\ sawNull' = TRUE
                   /\ UNCHANGED <<heap_index, issued, sumAligned>>
              ELSE /\ ret' = heap_index
                   /\ heap_index' = UAdd(heap_index, size)
                   /\ issued' = Append(issued, <<heap_index, sz>>)
                   /\ sumAligned' = SumPlus(sumAligned, size)
                   /\ UNCHANGED sawNull
    /\ UNCHANGED <<heap_memory, writes>>
    /\ UNCHANGED notArena

\* lines 109-112
reset_heap ==
    /\ heap_index' = U(0)
    /\ heap_memory' = my_memset(heap_memory, 0, HEAP_SIZE)
    /\ prevOp' = lastOp
    /\ lastOp' = "reset"
    /\ issued' = <<>>
    /\ writes' = 0
    /\ sumAligned' = 0
    /\ sawNull' = FALSE
    /\ UNCHANGED <<ret, arg, pre_index>>
    /\ UNCHANGED notArena

\* bytes of a handed-out range that lie in heap_memory: its first and last
RangeBytes(r) ==
    IF r[2] = U(0) \/ ~WLe(r[1], U(HEAP_SIZE - 1)) THEN {}
    ELSE LET last == WAdd(r[1], USub(r[2], U(1)))
         IN  {Val(r[1])} \cup
             (IF WLe(last, U(HEAP_SIZE - 1)) THEN {Val(last)} ELSE {HEAP_SIZE - 1})

\* the caller stores a byte through a pointer it was handed
CallerWrite(k, b) ==
    /\ writes < MaxWrites
    /\ k \in 1 .. Len(issued)
    /\ \E off \in RangeBytes(issued[k]) :
          /\ heap_memory' = [heap_memory EXCEPT ![off] = b]
    /\ writes' = writes + 1
    /\ prevOp' = lastOp
    /\ lastOp' = "write"
    /\ UNCHANGED <<heap_index, ret, arg, pre_index, issued, sumAligned, sawNull>>
    /\ UNCHANGED notArena

\* ------------------------------------------------------------------------
\* Circular index space: Templates/utils.h
\* ------------------------------------------------------------------------
MaxRingBits == 4

\* power-of-two ring sizes 1, 2, 4, ...
RingSizes == {U(2^k) : k \in 0 .. MaxRingBits}

\* the indices [0, size) of a ring
Indices(size) == {U(n) : n \in 0 .. Val(size) - 1}

\* mutant: the wraparound is computed with the remainder instead of the mask
CIRC_BUF_INC_Modulo(idx, size) == U((Val(idx) + 1) % Val(size))

\* mutant: the increment is forgotten
CIRC_BUF_INC_NoIncrement(idx, size) == UAnd(idx, USub(size, U(1)))

\* line 372: (((idx) + 1) & ((size) - 1))
CIRC_BUF_INC(idx, size) == UAnd(UAdd(idx, U(1)), USub(size, U(1)))

\* mutant: the mask is size instead of size - 1
CIRC_BUF_DEC_MaskSize(idx, size) == UAnd(USub(idx, U(1)), size)

\* mutant: the decrement is computed as an increment
CIRC_BUF_DEC_Plus(idx, size) == UAnd(UAdd(idx, U(1)), USub(size, U(1)))

\* line 377: (((idx) - 1) & ((size) - 1))
CIRC_BUF_DEC(idx, size) == UAnd(USub(idx, U(1)), USub(size, U(1)))

\* mutant: head + 1 is compared without the wraparound
CIRC_BUF_FULL_NoWrap(h, t, size) == UAdd(h, U(1)) = t

\* lines 382-383: (CIRC_BUF_INC(head, size) == (tail))
CIRC_BUF_FULL(h, t, size) == CIRC_BUF_INC(h, size) = t

\* line 388: ((head) == (tail))
CIRC_BUF_EMPTY(h, t) == h = t

\* mutant: the operands of the subtraction are swapped
CIRC_BUF_COUNT_Swapped(h, t, size) == UAnd(USub(t, h), USub(size, U(1)))

\* lines 393-394: (((head) - (tail)) & ((size) - 1))
CIRC_BUF_COUNT(h, t, size) == UAnd(USub(h, t), USub(size, U(1)))

\* any ring of a power-of-two size with both cursors somewhere in it
RingInit ==
    /\ ring_size \in RingSizes
    /\ head \in Indices(ring_size)
    /\ tail \in Indices(ring_size)
    /\ ringOp = "init"
    /\ old = U(0)
    /\ stored = 0

IncHead ==
    /\ head' = CIRC_BUF_INC(head, ring_size)
    /\ old' = head
    /\ ringOp' = "inc_head"
    /\ UNCHANGED <<ring_size, tail, stored>>
    /\ UNCHANGED notRing

DecHead ==
    /\ head' = CIRC_BUF_DEC(head, ring_size)
    /\ old' = head
    /\ ringOp' = "dec_head"
    /\ UNCHANGED <<ring_size, tail, stored>>
    /\ UNCHANGED notRing

IncTail ==
    /\ tail' = CIRC_BUF_INC(tail, ring_size)
    /\ old' = tail
    /\ ringOp' = "inc_tail"
    /\ UNCHANGED <<ring_size, head, stored>>
    /\ UNCHANGED notRing

DecTail ==
    /\ tail' = CIRC_BUF_DEC(tail, ring_size)
    /\ old' = tail
    /\ ringOp' = "dec_tail"
    /\ UNCHANGED <<ring_size, head, stored>>
    /\ UNCHANGED notRing

\* an empty ring of a power-of-two size, both cursors at 0
RunInit ==
    /\ ring_size \in RingSizes
    /\ head = U(0)
    /\ tail = U(0)
    /\ ringOp = "init"
    /\ old = U(0)
    /\ stored = 0

\* the caller's push: head advances, only when the ring is not full
Push ==
    /\ ~CIRC_BUF_FULL(head, tail, ring_size)
    /\ head' = CIRC_BUF_INC(head, ring_size)
    /\ old' = head
    /\ ringOp' = "push"
    /\ stored' = stored + 1
    /\ UNCHANGED <<ring_size, tail>>
    /\ UNCHANGED notRing

\* the caller's pop: tail advances, only when the ring is not empty
Pop ==
    /\ ~CIRC_BUF_EMPTY(head, tail)
    /\ tail' = CIRC_BUF_INC(tail, ring_size)
    /\ old' = tail
    /\ ringOp' = "pop"
    /\ stored' = stored - 1
    /\ UNCHANGED <<ring_size, head>>
    /\ UNCHANGED notRing

MaxBadSize == 12

\* line 101: (((x) > 0) && (((x) & ((x) - 1)) == 0))
IS_POWER_OF_2(x) == UGt(x, U(0)) /\ UAnd(x, USub(x, U(1))) = U(0)

\* ring sizes from 3 that are not powers of two
BadSizes == {s \in {U(n) : n \in 3 .. MaxBadSize} : ~IS_POWER_OF_2(s)}

\* a ring whose size is not a power of two, both cursors somewhere in it
BadRingInit ==
    /\ ring_size \in BadSizes
    /\ head \in Indices(ring_size)
    /\ tail \in Indices(ring_size)
    /\ ringOp = "init"
    /\ old = U(0)
    /\ stored = 0

\* ------------------------------------------------------------------------
\* reverse_string: Templates/baremetal.c
\* ------------------------------------------------------------------------
MaxStrLen == 5

Chars == {"a", "b"}

\* the buffers tried: every string of at most MaxStrLen characters, and the
\* test's "hello" (line 170)
Strs ==
    UNION {[1 .. n -> Chars] : n \in 0 .. MaxStrLen} \cup {<<"h", "e", "l", "l", "o">>}

\* index i (a word) is one of str[0] .. str[len-1]
InBuf(i, s) == i[1] = 0 /\ i[2] < Len(s)

\* lines 129-131: swap str[i] and str[j]
Swap(s, i, j) ==
    [s EXCEPT ![Val(i) + 1] = s[Val(j) + 1], ![Val(j) + 1] = s[Val(i) + 1]]

\* lines 127-134: the loop from the cursors i, j; an access outside the
\* buffer is undefined behaviour and ends the computation
RECURSIVE RevLoop(_, _, _)
RevLoop(s, i, j) ==
    IF ~UGt(j, i) THEN [status |-> "done", str |-> s]
    ELSE IF ~InBuf(i, s) \/ ~InBuf(j, s) THEN [status |-> "undefined", str |-> s]
    ELSE RevLoop(Swap(s, i, j), UAdd(i, U(1)), USub(j, U(1)))

RevIdle ==
    /\ str = <<>>
    /\ orig = <<>>
    /\ rlen = U(0)
    /\ rpc = "done"

\* a call reverse_string(str, len) about to run, len the length of the buffer
RevInit ==
    /\ str \in Strs
    /\ orig = str
    /\ rlen = U(Len(str))
    /\ rpc = "call"

\* lines 123-135; after undefined behaviour the buffer holds anything
reverse_string ==
    /\ rpc = "call"
    /\ LET r == RevLoop(str, U(0), USub(rlen, U(1)))   \* lines 124-125
       IN  /\ rpc' = r.status
           /\ IF r.status = "undefined"
              THEN str' \in {s \in Strs : Len(s) = Len(str)}
              ELSE str' = r.str
    /\ UNCHANGED <<orig, rlen>>
    /\ UNCHANGED notRev

\* lines 170-171: the next test call, on another buffer
NextCall ==
    /\ rpc # "call"
    /\ str' \in Strs
    /\ orig' = str'
    /\ rlen' = U(Len(str'))
    /\ rpc' = "call"
    /\ UNCHANGED notRev

\* ------------------------------------------------------------------------
\* Rounding up to an alignment: utils.h ALIGN_UP and simple_alloc line 93
\* ------------------------------------------------------------------------
MaxAlignBits == 4
MaxX == 20

\* mutant: the - 1 is forgotten
ALIGN_UP_NoMinusOne(x, align) == UAnd(UAdd(x, align), UNot(USub(align, U(1))))

\* line 194: (((x) + (align) - 1) & ~((align) - 1))
ALIGN_UP(x, align) ==
    UAnd(USub(UAdd(x, align), U(1)), UNot(USub(align, U(1))))

\* power-of-two alignments 1, 2, 4, ...
Aligns == {U(2^k) : k \in 0 .. MaxAlignBits}

\* x + align - 1 does not exceed the largest word
Representable(x, align) == WAdd(x, USub(align, U(1)))[1] < Limb

\* values tried: the small ones, the ones at the top of the word, the usage
\* example 0x1003 (line 448), and every size 0 .. HEAP_SIZE for ALIGNMENT
Inputs(align) ==
    {x \in {U(n) : n \in 0 .. MaxX} \cup {USub(U(0), U(n)) : n \in 1 .. MaxX}
             \cup {U(4099)}
             \cup (IF align = U(ALIGNMENT) THEN {U(n) : n \in 0 .. HEAP_SIZE} ELSE {}) :
        Representable(x, align)}

AlignInit ==
    /\ aalign \in Aligns
    /\ ax \in Inputs(aalign)
    /\ aresult = U(0)
    /\ apc = "call"

\* utils.h line 194 applied to x and align
ApplyAlignUp ==
    /\ apc = "call"
    /\ aresult' = ALIGN_UP(ax, aalign)
    /\ apc' = "ALIGN_UP"
    /\ UNCHANGED <<ax, aalign>>
    /\ UNCHANGED notAlign

\* baremetal.c line 93 applied to x
ApplyAlignedSize ==
    /\ apc = "call"
    /\ aalign = U(ALIGNMENT)
    /\ aresult' = AlignedSize(ax)
    /\ apc' = "simple_alloc"
    /\ UNCHANGED <<ax, aalign>>
    /\ UNCHANGED notAlign

\* ------------------------------------------------------------------------
\* simple_alloc called from two execution contexts: Templates/baremetal.c
\* ------------------------------------------------------------------------
Contexts == {1, 2}

CtxSizes == {U(0), U(5), U(8), U(HEAP_SIZE), USub(U(0), U(8)), USub(U(0), U(1))}

\* mutant: the cursor is not advanced
NewIndex_Forgotten(index, size) == index

\* line 100: heap_index += size, from the loaded value of heap_index
NewIndex(index, size) == UAdd(index, size)

CtxIdle ==
    /\ locked = TRUE
    /\ pc = [c \in Contexts |-> "idle"]
    /\ carg = [c \in Contexts |-> U(0)]
    /\ csize = [c \in Contexts |-> U(0)]
    /\ cptr = [c \in Contexts |-> U(0)]
    /\ ctmp = [c \in Contexts |-> U(0)]
    /\ cret = [c \in Contexts |-> NULL]

\* both contexts about to call, with or without a lock around the calls
CtxInit ==
    /\ locked \in BOOLEAN
    /\ pc = [c \in Contexts |-> "idle"]
    /\ carg = [c \in Contexts |-> U(0)]
    /\ csize = [c \in Contexts |-> U(0)]
    /\ cptr = [c \in Contexts |-> U(0)]
    /\ ctmp = [c \in Contexts |-> U(0)]
    /\ cret = [c \in Contexts |-> NULL]

\* lines 91-93: the call and the rounding of the local size; under the lock
\* a call begins only when no other call is in progress
CtxCall(c, sz) ==
    /\ pc[c] = "idle"
    /\ locked => \A d \in Contexts \ {c} : pc[d] \in {"idle", "done"}
    /\ carg' = [carg EXCEPT ![c] = sz]
    /\ csize' = [csize EXCEPT ![c] = AlignedSize(sz)]
    /\ pc' = [pc EXCEPT ![c] = "check"]
    /\ UNCHANGED <<locked, cptr, ctmp, cret, heap_index>>
    /\ UNCHANGED notCtx

\* lines 95-97: the capacity check
CtxCheck(c) ==
    /\ pc[c] = "check"
    /\ IF OutOfMemory(heap_index, csize[c])
       THEN /\ cret' = [cret EXCEPT ![c] = NULL]
            /\ pc' = [pc EXCEPT ![c] = "done"]
       ELSE /\ pc' = [pc EXCEPT ![c] = "ptr"]
            /\ UNCHANGED cret
    /\ UNCHANGED <<locked, carg, csize, cptr, ctmp, heap_index>>
    /\ UNCHANGED notCtx

\* line 99: ptr = &heap_memory[heap_index]
CtxPtr(c) ==
    /\ pc[c] = "ptr"
    /\ cptr' = [cptr EXCEPT ![c] = heap_index]
    /\ pc' = [pc EXCEPT ![c] = "load"]
    /\ UNCHANGED <<locked, carg, csize, ctmp, cret, heap_index>>
    /\ UNCHANGED notCtx

\* line 100, first half: heap_index is read
CtxLoad(c) ==
    /\ pc[c] = "load"
    /\ ctmp' = [ctmp EXCEPT ![c] = heap_index]
    /\ pc' = [pc EXCEPT ![c] = "store"]
    /\ UNCHANGED <<locked, carg, csize, cptr, cret, heap_index>>
    /\ UNCHANGED notCtx

\* line 100, second half, and line 101: heap_index is written, ptr returned
CtxStore(c) ==
    /\ pc[c] = "store"
    /\ heap_index' = NewIndex(ctmp[c], csize[c])
    /\ cret' = [cret EXCEPT ![c] = cptr[c]]
    /\ pc' = [pc EXCEPT ![c] = "done"]
    /\ UNCHANGED <<locked, carg, csize, cptr, ctmp>>
    /\ UNCHANGED notCtx

\* ------------------------------------------------------------------------
\* Specifications
\* ------------------------------------------------------------------------

Init == ArenaInit /\ RingIdle /\ RevIdle /\ AlignIdle /\ CtxIdle

Next ==
    \/ \E sz \in Sizes : simple_alloc(sz)
    \/ reset_heap
    \/ \E k \in 1 .. MaxAllocs, b \in {1, 255} : CallerWrite(k, b)

Spec == Init /\ [][Next]_vars

InitRing == ArenaInit /\ RingInit /\ RevIdle /\ AlignIdle /\ CtxIdle

NextRing == IncHead \/ DecHead \/ IncTail \/ DecTail

SpecRing == InitRing /\ [][NextRing]_vars

InitRun == ArenaInit /\ RunInit /\ RevIdle /\ AlignIdle /\ CtxIdle

NextRun == Push \/ Pop

SpecRun == InitRun /\ [][NextRun]_vars

InitBad == ArenaInit /\ BadRingInit /\ RevIdle /\ AlignIdle /\ CtxIdle

NextBad == IncHead \/ DecHead \/ IncTail \/ DecTail

SpecBad == InitBad /\ [][NextBad]_vars

InitRev == ArenaInit /\ RingIdle /\ RevInit /\ AlignIdle /\ CtxIdle

NextRev == reverse_string \/ NextCall

SpecRev == InitRev /\ [][NextRev]_vars

InitAlign == ArenaInit /\ RingIdle /\ RevIdle /\ AlignInit /\ CtxIdle

NextAlign == ApplyAlignUp \/ ApplyAlignedSize

SpecAlign == InitAlign /\ [][NextAlign]_vars

InitCtx == ArenaInit /\ RingIdle /\ RevIdle /\ AlignIdle /\ CtxInit

NextCtx ==
    \E c \in Contexts :
        \/ \E sz \in CtxSizes : CtxCall(c, sz)
        \/ CtxCheck(c)
        \/ CtxPtr(c)
        \/ CtxLoad(c)
        \/ CtxStore(c)

SpecCtx == InitCtx /\ [][NextCtx]_vars

\* ------------------------------------------------------------------------
\* Properties of the arena
\* ------------------------------------------------------------------------

\* round-up of a size to a multiple of ALIGNMENT, as a wide (unwrapped) number
MathAlignUp(size) ==
    LET w == WAdd(size, U(ALIGNMENT - 1))
    IN  <<w[1], w[2] - (w[2] % ALIGNMENT)>>

\* index + align_up(size) > HEAP_SIZE, without wraparound
MathExceeds(index, size) == ~WLe(WAdd(index, MathAlignUp(size)), U(HEAP_SIZE))

\* the range r = <<offset, size>> lies inside [0, HEAP_SIZE)
InHeap(r) == WLe(WAdd(r[1], r[2]), U(HEAP_SIZE))

\* the ranges [offset, offset + size) of r and s share no byte
Disjoint(r, s) ==
    \/ r[2] = U(0)
    \/ s[2] = U(0)
    \/ WLe(WAdd(r[1], r[2]), s[1])
    \/ WLe(WAdd(s[1], s[2]), r[1])

\* C1: in every reachable state 0 <= heap_index <= HEAP_SIZE.
CursorInBounds == WLe(U(0), heap_index) /\ WLe(heap_index, U(HEAP_SIZE))

\* a granted request whose addition wrapped round the word: heap_index went back
CursorWrapped ==
    /\ lastOp = "alloc"
    /\ arg = USub(U(0), U(8))
    /\ pre_index = U(8)
    /\ ret = U(8)
    /\ heap_index = U(0)

\* C2: a call with heap_index + align_up(size) > HEAP_SIZE (mathematically)
\* returns NULL and leaves heap_index unchanged.
OversizeReturnsNull ==
    (lastOp = "alloc" /\ MathExceeds(pre_index, arg))
        => (ret = NULL /\ heap_index = pre_index)

\* C3: a call with heap_index + align_up(size) <= HEAP_SIZE returns the range
\* at the pre-call heap_index and advances heap_index by exactly align_up(size).
FittingAllocAdvances ==
    (lastOp = "alloc" /\ ~MathExceeds(pre_index, arg))
        => (ret = pre_index /\ heap_index = WAdd(pre_index, MathAlignUp(arg)))

\* allocate(5) on the empty arena returns offset 0 and the cursor becomes 8
AllocFiveFromEmpty ==
    /\ lastOp = "alloc"
    /\ pre_index = U(0)
    /\ arg = U(5)
    /\ ret = U(0)
    /\ heap_index = U(8)

\* C4: the ranges handed out since the last reset are pairwise disjoint and
\* each lies inside [0, HEAP_SIZE).
IssuedRangesDisjoint ==
    \A i, j \in 1 .. Len(issued) :
        /\ InHeap(issued[i])
        /\ (i < j => Disjoint(issued[i], issued[j]))

\* C5: from the empty arena, the aligned sizes granted before the first NULL
\* sum to at most HEAP_SIZE.
GrantedSumWithinCapacity == (~sawNull) => sumAligned <= HEAP_SIZE

\* C6: reset_heap ends with heap_index = 0 and every byte of heap_memory zero.
ResetClearsArena ==
    lastOp = "reset"
        => (heap_index = U(0) /\ \A i \in 0 .. HEAP_SIZE - 1 : heap_memory[i] = 0)

\* a reset that followed a caller's store into the buffer
ResetAfterWrite ==
    /\ lastOp = "reset"
    /\ prevOp = "write"
    /\ heap_index = U(0)
    /\ heap_memory[HEAP_SIZE - 1] = 0

\* C7: the simple_alloc(n) that follows a reset_heap, with n <= HEAP_SIZE,
\* succeeds and returns offset 0.
AllocAfterResetAtZero ==
    (lastOp = "alloc" /\ prevOp = "reset" /\ WLe(arg, U(HEAP_SIZE)))
        => (ret # NULL /\ ret = U(0))

\* the whole capacity granted right after a reset
FullAllocAfterReset ==
    /\ lastOp = "alloc"
    /\ prevOp = "reset"
    /\ arg = U(HEAP_SIZE)
    /\ ret = U(0)
    /\ heap_index = U(HEAP_SIZE)

\* C8: heap_index is always a multiple of ALIGNMENT, and so is the start of
\* every range handed out.
CursorAligned ==
    /\ heap_index[2] % ALIGNMENT = 0
    /\ \A i \in 1 .. Len(issued) : issued[i][1][2] % ALIGNMENT = 0

\* a second allocation that starts where an odd-sized first one was rounded to
SecondAllocAligned ==
    /\ lastOp = "alloc"
    /\ Len(issued) = 2
    /\ issued[1] = <<U(0), U(5)>>
    /\ issued[2] = <<U(8), U(5)>>
    /\ heap_index = U(16)

\* C18: once heap_index = HEAP_SIZE, every further simple_alloc with a nonzero
\* size returns NULL (and leaves heap_index at HEAP_SIZE) until reset_heap.
ExhaustionIsPermanent ==
    (lastOp = "alloc" /\ pre_index = U(HEAP_SIZE) /\ arg # U(0))
        => (ret = NULL /\ heap_index = U(HEAP_SIZE))

\* ------------------------------------------------------------------------
\* Properties of the circular index space
\* ------------------------------------------------------------------------

\* C9: CIRC_BUF_DEC(CIRC_BUF_INC(index, size), size) = index for every
\* power-of-two size and every index in [0, size).
RetreatUndoesAdvance ==
    \A i \in {head, tail} :
        CIRC_BUF_DEC(CIRC_BUF_INC(i, ring_size), ring_size) = i

\* head advanced across the wraparound size-1 -> 0 and its retreat is size-1
AdvanceWrapped ==
    /\ ringOp = "inc_head"
    /\ ring_size = U(8)
    /\ old = U(7)
    /\ head = U(0)
    /\ CIRC_BUF_DEC(head, ring_size) = old

\* C10: CIRC_BUF_FULL(head, tail, size) holds iff
\* CIRC_BUF_COUNT(head, tail, size) = size - 1.
FullIffCountIsSizeMinusOne ==
    CIRC_BUF_FULL(head, tail, ring_size)
        <=> (CIRC_BUF_COUNT(head, tail, ring_size) = USub(ring_size, U(1)))

\* seven advances of head from an empty ring of 8: full, count 7
RingFilled ==
    /\ ringOp = "inc_head"
    /\ ring_size = U(8)
    /\ head = U(7)
    /\ tail = U(0)
    /\ CIRC_BUF_FULL(head, tail, ring_size)
    /\ CIRC_BUF_COUNT(head, tail, ring_size) = U(7)

\* C11 as stated: for every power-of-two size, CIRC_BUF_FULL and
\* CIRC_BUF_EMPTY are never both true.
FullAndEmptyNeverBoth ==
    ~(CIRC_BUF_FULL(head, tail, ring_size) /\ CIRC_BUF_EMPTY(head, tail))

\* C11 as amended: for every power-of-two size of at least 2, CIRC_BUF_FULL
\* and CIRC_BUF_EMPTY are never both true (for size 1 both always are).
FullAndEmptyNeverBothFromTwo ==
    /\ ring_size # U(1)
        => ~(CIRC_BUF_FULL(head, tail, ring_size) /\ CIRC_BUF_EMPTY(head, tail))
    /\ ring_size = U(1)
        => (CIRC_BUF_FULL(head, tail, ring_size) /\ CIRC_BUF_EMPTY(head, tail))

\* a ring of 2 that one advance of head made full and not empty
RingOfTwoFull ==
    /\ ringOp = "inc_head"
    /\ ring_size = U(2)
    /\ old = U(0)
    /\ head = U(1)
    /\ tail = U(0)
    /\ CIRC_BUF_FULL(head, tail, ring_size)
    /\ ~CIRC_BUF_EMPTY(head, tail)

\* x mod size for a small word x and a ring size, as a word
ModSize(n, size) == U(n % Val(size))

\* C12: for every power-of-two size and all cursors in [0, size), the macros
\* equal modular arithmetic: INC = (i + 1) mod size, DEC = (i - 1) mod size
\* (size - 1 when i = 0), COUNT = (head - tail) mod size, each in [0, size).
MacrosAreModular ==
    /\ \A i \in {head, tail} :
          /\ CIRC_BUF_INC(i, ring_size) = ModSize(Val(i) + 1, ring_size)
          /\ CIRC_BUF_DEC(i, ring_size) = ModSize(Val(i) - 1, ring_size)
          /\ (i = U(0) => CIRC_BUF_DEC(i, ring_size) = USub(ring_size, U(1)))
          /\ CIRC_BUF_INC(i, ring_size) \in Indices(ring_size)
          /\ CIRC_BUF_DEC(i, ring_size) \in Indices(ring_size)
    /\ CIRC_BUF_COUNT(head, tail, ring_size)
          = ModSize(Val(head) - Val(tail), ring_size)
    /\ CIRC_BUF_COUNT(head, tail, ring_size) \in Indices(ring_size)
    /\ head \in Indices(ring_size)
    /\ tail \in Indices(ring_size)

\* tail retreated from 0 to size - 1 while head is behind it: count wraps
RetreatWrapped ==
    /\ ringOp = "dec_tail"
    /\ ring_size = U(16)
    /\ old = U(0)
    /\ tail = U(15)
    /\ head = U(3)
    /\ CIRC_BUF_COUNT(head, tail, ring_size) = U(4)

\* C13: in a ring driven from head = tail = 0 by pushes (when not full) and
\* pops (when not empty), CIRC_BUF_COUNT(head, tail) equals pushes minus pops,
\* is at most size - 1, and head = tail holds only when that number is 0.
CountTracksPushesAndPops ==
    /\ stored >= 0
    /\ CIRC_BUF_COUNT(head, tail, ring_size) = U(stored)
    /\ stored <= Val(ring_size) - 1
    /\ (head = tail => stored = 0)

\* a ring of 8 filled to 7 after both cursors wrapped past the end
RunFullAfterWrap ==
    /\ ringOp = "push"
    /\ ring_size = U(8)
    /\ tail = U(3)
    /\ head = U(2)
    /\ stored = 7
    /\ CIRC_BUF_FULL(head, tail, ring_size)

\* ------------------------------------------------------------------------
\* Properties of reverse_string
\* ------------------------------------------------------------------------
Reversed(s) == [k \in 1 .. Len(s) |-> s[Len(s) + 1 - k]]

\* C14: for every buffer and every len >= 0, reverse_string(str, len) ends
\* with str[i] = original str[len-1-i] for all i < len, having touched no
\* index outside [0, len).
ReverseCorrect ==
    rpc # "call" => (rpc = "done" /\ str = Reversed(orig))

\* ------------------------------------------------------------------------
\* Properties of the rounding
\* ------------------------------------------------------------------------

\* C15: for every power-of-two align and every x with x + align - 1
\* representable, (x + align - 1) & ~(align - 1), as ALIGN_UP and as
\* simple_alloc compute it, is the smallest multiple of align that is >= x:
\* it is a multiple of align, 0 <= result - x < align, and an aligned x is
\* returned unchanged.
RoundsUpToMultiple ==
    apc # "call" =>
        LET d == USub(aresult, ax)
        IN  /\ aresult[2] % Val(aalign) = 0
            /\ WLe(ax, aresult)
            /\ d[1] = 0
            /\ d[2] < Val(aalign)
            /\ (ax[2] % Val(aalign) = 0 => aresult = ax)

\* the usage example of utils.h: ALIGN_UP(0x1003, 4) is 0x1004
AlignUpExample ==
    /\ apc = "ALIGN_UP"
    /\ ax = U(4099)
    /\ aalign = U(4)
    /\ aresult = U(4100)

\* ------------------------------------------------------------------------
\* Properties of rings whose size is not a power of two
\* ------------------------------------------------------------------------

\* C16: for every size >= 3 that is not a power of two there is an index in
\* [0, size) for which CIRC_BUF_INC(index, size) differs from
\* (index + 1) mod size; the macros still yield a value for every argument.
MaskWrongOffPowerOfTwo ==
    /\ \E i \in Indices(ring_size) :
          CIRC_BUF_INC(i, ring_size) # U((Val(i) + 1) % Val(ring_size))
    /\ CIRC_BUF_INC(head, ring_size) \in Indices(ring_size)

\* size 6: advancing head from 1 gives 2 & 5 = 0 instead of 2
AdvanceWrongOfSix ==
    /\ ringOp = "inc_head"
    /\ ring_size = U(6)
    /\ old = U(1)
    /\ head = U(0)

\* ------------------------------------------------------------------------
\* Properties of simple_alloc under concurrent calls
\* ------------------------------------------------------------------------

\* both calls have returned a range, and it starts at the same offset
SameOffsetTwice ==
    /\ \A c \in Contexts : pc[c] = "done" /\ cret[c] # NULL
    /\ cret[1] = cret[2]

\* C17 as stated (its second half): when each call runs atomically, no state
\* is reachable in which both calls return the same start offset.
AtomicCallsNeverShareOffset == locked => ~SameOffsetTwice

\* C17 as amended: when each call runs atomically, both calls return the same
\* start offset only if one of them asked for a size that line 93 rounds to
\* 0 (size 0, or a size above ULONG_MAX - 3, whose rounding wraps).
AtomicCallsShareOffsetOnlyForZero ==
    (locked /\ SameOffsetTwice) => \E c \in Contexts : csize[c] = U(0)

\* C17, first half: without the lock, the calls simple_alloc(5) and
\* simple_alloc(8) interleave so that both return offset 0
RaceSharesOffset ==
    /\ ~locked
    /\ SameOffsetTwice
    /\ carg[1] = U(5)
    /\ carg[2] = U(8)
    /\ cret[1] = U(0)

====
